---- MODULE Spec2Model ----
(***************************************************************************)
(* Model of src/table.py, the Streamlit salary calculator: the text of an  *)
(* uploaded PDF is split into lines and tokens, coerced into rows          *)
(* (process_pdf_data), a threshold-hours deduction is computed per row     *)
(* (calculate_deductions) and the result is rendered (create_pdf).         *)
(*                                                                         *)
(* Text is a sequence of one-character strings.  The alphabet of the       *)
(* inputs is Digit, the signs, ",", ".", " ", "\n" and the letters        *)
(* B D H R S W b o s z; on this alphabet the grammars of Python's int() and float()     *)
(* are the ones written below (no exponent, underscore, "inf" or "nan"     *)
(* can be spelled with it).  A decimal is held as an integer count of      *)
(* 10^-Decimals units; the inputs carry at most Decimals fraction digits.  *)
(***************************************************************************)
EXTENDS Integers, Sequences, FiniteSets, TLC

\* ------------------------------------------------------------- bounds
MaxPages == 3
MaxThreshold == 1

\* ---------------------------------------------------- program constants
MinFields == 11
NumDays == 7
DefaultThreshold == 40
Decimals == 2
PreviewLen == 500

Scale == 10 ^ Decimals

\* Python's None, and a present value, as a sequence of length 0 or 1.
None == << >>
Some(x) == << x >>

\* ------------------------------------------------------------ characters
NL == "\n"
Digit == {"0", "1", "2", "3", "4", "5", "6", "7", "8", "9"}
Sign == {"+", "-"}
Whitespace == {" ", NL}

DigitVal(c) ==
  CASE c = "0" -> 0 [] c = "1" -> 1 [] c = "2" -> 2 [] c = "3" -> 3
    [] c = "4" -> 4 [] c = "5" -> 5 [] c = "6" -> 6 [] c = "7" -> 7
    [] c = "8" -> 8 [] c = "9" -> 9

DigitChar(d) ==
  CASE d = 0 -> "0" [] d = 1 -> "1" [] d = 2 -> "2" [] d = 3 -> "3"
    [] d = 4 -> "4" [] d = 5 -> "5" [] d = 6 -> "6" [] d = 7 -> "7"
    [] d = 8 -> "8" [] d = 9 -> "9"

\* ------------------------------------------------------- str operations
\* s[i:] and s[:j] of Python, on 1-based sequences.
Drop(s, n) == SubSeq(s, n + 1, Len(s))
Take(s, n) == SubSeq(s, 1, n)

\* Index of the first occurrence of c in s, or 0.
RECURSIVE FindFrom(_, _, _)
FindFrom(s, c, i) ==
  IF i > Len(s) THEN 0
  ELSE IF s[i] = c THEN i
  ELSE FindFrom(s, c, i + 1)

\* str.split(sep) for a one-character sep: always at least one piece.
RECURSIVE SplitOn(_, _)
SplitOn(s, sep) ==
  LET i == FindFrom(s, sep, 1)
  IN  IF i = 0 THEN << s >>
      ELSE << Take(s, i - 1) >> \o SplitOn(Drop(s, i), sep)

\* str.lstrip() / str.rstrip() / str.strip().
RECURSIVE LStrip(_)
LStrip(s) ==
  IF s # << >> /\ s[1] \in Whitespace THEN LStrip(Tail(s)) ELSE s

RECURSIVE RStrip(_)
RStrip(s) ==
  IF s # << >> /\ s[Len(s)] \in Whitespace THEN RStrip(Take(s, Len(s) - 1)) ELSE s

Strip(s) == RStrip(LStrip(s))

\* Length of the leading run of non-whitespace characters of s.
RECURSIVE WordLen(_)
WordLen(s) ==
  IF s = << >> \/ s[1] \in Whitespace THEN 0 ELSE 1 + WordLen(Tail(s))

\* str.split() with no argument: pieces between runs of whitespace, none empty.
RECURSIVE SplitWS(_)
SplitWS(s) ==
  LET t == LStrip(s)
      n == WordLen(t)
  IN  IF t = << >> THEN << >>
      ELSE << Take(t, n) >> \o SplitWS(Drop(t, n))

\* str.replace(c, '').
RECURSIVE Remove(_, _)
Remove(s, c) ==
  IF s = << >> THEN << >>
  ELSE IF s[1] = c THEN Remove(Tail(s), c)
  ELSE << s[1] >> \o Remove(Tail(s), c)

\* ---------------------------------------------------- int() and float()
AllDigits(s) == \A i \in 1..Len(s) : s[i] \in Digit

RECURSIVE DigitsVal(_)
DigitsVal(s) ==
  IF s = << >> THEN 0
  ELSE 10 * DigitsVal(Take(s, Len(s) - 1)) + DigitVal(s[Len(s)])

Unsigned(s) == IF s # << >> /\ s[1] \in Sign THEN Tail(s) ELSE s
SignOf(s) == IF s # << >> /\ s[1] = "-" THEN -1 ELSE 1

\* int(s) succeeds: an optional sign and one or more digits.
IsInt(s) ==
  LET u == Unsigned(s) IN u # << >> /\ AllDigits(u)

IntVal(s) == SignOf(s) * DigitsVal(Unsigned(s))

\* float(s) succeeds: an optional sign, then digits with an optional point
\* and fraction, or a point and a fraction; at least one digit in all.
IsFloat(s) ==
  LET u == Unsigned(s)
      p == FindFrom(u, ".", 1)
      ip == IF p = 0 THEN u ELSE Take(u, p - 1)
      fp == IF p = 0 THEN << >> ELSE Drop(u, p)
  IN  /\ AllDigits(ip)
      /\ AllDigits(fp)
      /\ Len(ip) + Len(fp) > 0

\* The fraction digits f as a count of 10^-Decimals units.
RECURSIVE FracVal(_, _)
FracVal(f, k) ==
  IF k = 0 THEN 0
  ELSE (IF f = << >> THEN 0 ELSE DigitVal(f[1]) * 10 ^ (k - 1))
       + FracVal(IF f = << >> THEN f ELSE Tail(f), k - 1)

FloatVal(s) ==
  LET u == Unsigned(s)
      p == FindFrom(u, ".", 1)
      ip == IF p = 0 THEN u ELSE Take(u, p - 1)
      fp == IF p = 0 THEN << >> ELSE Drop(u, p)
  IN  SignOf(s) * (DigitsVal(ip) * Scale + FracVal(fp, Decimals))

\* ----------------------------------------------------- Streamlit output
\* One element rendered on the page by a st.* call.
Out(kind, msg, text, n) == [st |-> kind, msg |-> msg, text |-> text, n |-> n]

\* ------------------------------------------------ extract_text_from_pdf
\* The page texts appended one after another, with nothing between them.
RECURSIVE ExtractTextFromPdf(_)
ExtractTextFromPdf(pages) ==
  IF pages = << >> THEN << >>
  ELSE Head(pages) \o ExtractTextFromPdf(Tail(pages))

\* ----------------------------------------------------- process_pdf_data
\* lines[1:] stripped, the empty ones left out.
RECURSIVE StripNonEmpty(_)
StripNonEmpty(lines) ==
  IF lines = << >> THEN << >>
  ELSE (IF Strip(Head(lines)) # << >> THEN << Strip(Head(lines)) >> ELSE << >>)
       \o StripNonEmpty(Tail(lines))

\* Mutant: the first line is kept as data.
DataLinesKeepFirst(lines) == StripNonEmpty(lines)

DataLines(lines) == StripNonEmpty(Tail(lines))

\* The conversion applied to parts[i] (1-based: parts[2], parts[3] are the
\* floats, parts[4..11] the ints) and whether it raises ValueError.
IsFloatField(i) == i \in 2..3
FieldArg(parts, i) == IF IsFloatField(i) THEN Remove(parts[i], ",") ELSE parts[i]
FieldRaises(parts, i) ==
  IF IsFloatField(i) THEN ~IsFloat(FieldArg(parts, i)) ELSE ~IsInt(parts[i])

\* The first field, in evaluation order, whose conversion raises; 0 if none.
RECURSIVE FirstRaising(_, _)
FirstRaising(parts, i) ==
  IF i > MinFields THEN 0
  ELSE IF FieldRaises(parts, i) THEN i
  ELSE FirstRaising(parts, i + 1)

Row(parts) ==
  [ Name          |-> parts[1],
    TotalSalary   |-> FloatVal(Remove(parts[2], ",")),
    SalaryPerHour |-> FloatVal(Remove(parts[3], ",")),
    Hours         |-> [d \in 1..NumDays |-> IntVal(parts[3 + d])],
    TotalHours    |-> IntVal(parts[MinFields]) ]

\* st.warning of the except clause: the line and str(e).
Warning(line, parts, i) ==
  Out("warning",
      IF IsFloatField(i) THEN "could not convert string to float"
                         ELSE "invalid literal for int() with base 10",
      line, i)

\* Mutant: the except clause passes without a warning.
ProcessLineSilent(acc, line) ==
  LET parts == SplitWS(line)
  IN  IF Len(parts) >= MinFields /\ FirstRaising(parts, 2) = 0
      THEN [acc EXCEPT !.rows = Append(@, Row(parts))]
      ELSE acc

\* The body of the for loop for one line, on the accumulated
\* [rows |-> processed_data, out |-> warnings].
ProcessLine(acc, line) ==
  LET parts == SplitWS(line)
      bad == FirstRaising(parts, 2)
  IN  IF Len(parts) >= MinFields
      THEN IF bad = 0
           THEN [acc EXCEPT !.rows = Append(@, Row(parts))]
           ELSE [acc EXCEPT !.out = Append(@, Warning(line, parts, bad))]
      ELSE acc

\* Mutant: the try encloses the loop, so the first line that raises ends it.
RECURSIVE ProcessLinesAbort(_, _)
ProcessLinesAbort(acc, lines) ==
  IF lines = << >> THEN acc
  ELSE LET parts == SplitWS(Head(lines))
       IN  IF Len(parts) >= MinFields /\ FirstRaising(parts, 2) # 0
           THEN ProcessLine(acc, Head(lines))
           ELSE ProcessLinesAbort(ProcessLine(acc, Head(lines)), Tail(lines))

RECURSIVE ProcessLines(_, _)
ProcessLines(acc, lines) ==
  IF lines = << >> THEN acc
  ELSE ProcessLines(ProcessLine(acc, Head(lines)), Tail(lines))

\* Mutant: no rows give an empty DataFrame instead of None.
ProcessPdfDataEmptyFrame(pdf_text) ==
  LET lines == SplitOn(pdf_text, NL)
      start == [rows |-> << >>,
                out |-> << Out("write", "Total lines in PDF", << >>, Len(lines)) >>]
      acc == ProcessLines(start, DataLines(lines))
  IN  [df |-> Some(acc.rows),
       out |-> Append(acc.out, Out("write", "Processed entries", << >>, Len(acc.rows)))]

\* The value returned (None or the DataFrame's rows) and what was rendered.
ProcessPdfData(pdf_text) ==
  LET lines == SplitOn(pdf_text, NL)
      start == [rows |-> << >>,
                out |-> << Out("write", "Total lines in PDF", << >>, Len(lines)) >>]
      acc == ProcessLines(start, DataLines(lines))
  IN  IF acc.rows = << >>
      THEN [df |-> None,
            out |-> Append(acc.out, Out("error", "No valid data found in the PDF", << >>, 0))]
      ELSE [df |-> Some(acc.rows),
            out |-> Append(acc.out, Out("write", "Processed entries", << >>, Len(acc.rows)))]

\* ------------------------------------------------- calculate_deductions
\* Mutant: the shortfall is priced whatever its sign.
DeductionNoBranch(worked_hours, threshold_hours, salary_per_hour) ==
  (threshold_hours - worked_hours) * salary_per_hour

Deduction(worked_hours, threshold_hours, salary_per_hour) ==
  IF worked_hours >= threshold_hours THEN 0
  ELSE (threshold_hours - worked_hours) * salary_per_hour

\* Mutant: a negative final salary is raised to zero.
FinalSalaryClamped(total_salary, deduction) ==
  IF total_salary - deduction < 0 THEN 0 ELSE total_salary - deduction

FinalSalary(total_salary, deduction) == total_salary - deduction

ResultRow(row, threshold_hours) ==
  LET deduction == Deduction(row.TotalHours, threshold_hours, row.SalaryPerHour)
  IN  [ Name           |-> row.Name,
        TotalSalary    |-> row.TotalSalary,
        WorkedHours    |-> row.TotalHours,
        ThresholdHours |-> threshold_hours,
        Deduction      |-> deduction,
        FinalSalary    |-> FinalSalary(row.TotalSalary, deduction) ]

\* Mutant: the results come out in reverse row order.
RECURSIVE CalculateDeductionsReversed(_, _)
CalculateDeductionsReversed(rows, threshold_hours) ==
  IF rows = << >> THEN << >>
  ELSE CalculateDeductionsReversed(Tail(rows), threshold_hours)
       \o << ResultRow(Head(rows), threshold_hours) >>

RECURSIVE CalculateDeductions(_, _)
CalculateDeductions(rows, threshold_hours) ==
  IF rows = << >> THEN << >>
  ELSE << ResultRow(Head(rows), threshold_hours) >>
       \o CalculateDeductions(Tail(rows), threshold_hours)

\* ----------------------------------------------------------- create_pdf
\* The decimal digits of n >= 0.
RECURSIVE NatStr(_)
NatStr(n) ==
  IF n < 10 THEN << DigitChar(n) >>
  ELSE NatStr(n \div 10) \o << DigitChar(n % 10) >>

\* The last k decimal digits of n >= 0, zero-padded.
RECURSIVE PadStr(_, _)
PadStr(n, k) ==
  IF k = 0 THEN << >>
  ELSE PadStr(n \div 10, k - 1) \o << DigitChar(n % 10) >>

\* f"{x:.2f}" of a value held in 10^-Decimals units.
Format2f(x) ==
  LET a == IF x < 0 THEN -x ELSE x
  IN  (IF x < 0 THEN << "-" >> ELSE << >>)
      \o NatStr(a \div Scale) \o << "." >> \o PadStr(a % Scale, Decimals)

FormatRow(r) ==
  [r EXCEPT !.TotalSalary = Format2f(@),
            !.Deduction   = Format2f(@),
            !.FinalSalary = Format2f(@)]

\* formatted_df = df.copy() with the three columns formatted.
FormattedCopy(df) == [i \in 1..Len(df) |-> FormatRow(df[i])]

\* What the caller's DataFrame holds after create_pdf returns.
CallerFrameAfter(df) == df

ColumnNames ==
  << "Name", "Total Salary", "Worked Hours", "Threshold Hours", "Deduction", "Final Salary" >>

\* Mutant: the except clause returns None without st.error.
CreatePdfSilent(df, build_ok) ==
  [ buffer |-> IF build_ok
               THEN Some([header |-> ColumnNames, body |-> FormattedCopy(df)])
               ELSE None,
    out    |-> << >>,
    df     |-> CallerFrameAfter(df) ]

\* build_ok: whether doc.build(elements) returns or raises.
CreatePdf(df, build_ok) ==
  LET data == [header |-> ColumnNames, body |-> FormattedCopy(df)]
  IN  [ buffer |-> IF build_ok THEN Some(data) ELSE None,
        out    |-> IF build_ok THEN << >>
                   ELSE << Out("error", "Error creating PDF", << >>, 0) >>,
        df     |-> CallerFrameAfter(df) ]

\* ------------------------------------------------------------- inputs
\* The lines an uploaded document is made of.
\* "H S R D D D D D D D W": the header: 11 tokens, none numeric.
HeaderLine ==
  << "H", " ", "S", " ", "R", " ", "D", " ", "D", " ", "D", " ", "D", " ", "D", " ", "D", " ", "D", " ", "W" >>

\* " Bob  1,000.50 0 1 1 0 0 0 0 0 2 zz": a thousands separator, extra spaces, a 12th token, rate 0.
ValidLine ==
  << " ", "B", "o", "b", " ", " ", "1", ",", "0", "0", "0", ".", "5", "0", " ", "0", " ", "1", " ", "1", " ", "0", " ", "0", " ", "0", " ", "0", " ", "0", " ", "2", " ", "z", "z" >>

\* "Ros 1 1.5 0 0 0 0 0 0 0 1": a rate that makes the deduction exceed the salary.
OverLine ==
  << "R", "o", "s", " ", "1", " ", "1", ".", "5", " ", "0", " ", "0", " ", "0", " ", "0", " ", "0", " ", "0", " ", "0", " ", "1" >>

\* "Bob -5 -1 -1 0 0 0 0 0 0 -1": negative numbers.
NegLine ==
  << "B", "o", "b", " ", "-", "5", " ", "-", "1", " ", "-", "1", " ", "0", " ", "0", " ", "0", " ", "0", " ", "0", " ", "0", " ", "-", "1" >>

\* "Ros 5 1 1 1.0 0 0 0 0 0 2": an hour count that int() refuses.
BadIntLine ==
  << "R", "o", "s", " ", "5", " ", "1", " ", "1", " ", "1", ".", "0", " ", "0", " ", "0", " ", "0", " ", "0", " ", "0", " ", "2" >>

\* "Bob 5 1": fewer than 11 tokens.
ShortLine ==
  << "B", "o", "b", " ", "5", " ", "1" >>

\* " ": only whitespace.
BlankLine ==
  << " " >>

\* A page holds one line and its line break; one page holds the short line
\* and then the blank one, and one ends without a line break, so that the
\* text of the page after it continues its line.
PageSet ==
  { Append(l, NL) : l \in { HeaderLine, ValidLine, OverLine, NegLine, BadIntLine } }
    \cup { (Append(ShortLine, NL) \o BlankLine) \o << NL >>, ValidLine }

RECURSIVE SeqsUpTo(_, _)
SeqsUpTo(S, n) ==
  IF n = 0 THEN { << >> }
  ELSE LET shorter == SeqsUpTo(S, n - 1)
       IN  shorter \cup { Append(q, x) : q \in shorter, x \in S }

\* An uploaded file: one PdfReader cannot read, or its pages' texts.
Files ==
  { [readable |-> FALSE, pages |-> << >>] }
    \cup { [readable |-> TRUE, pages |-> p] : p \in SeqsUpTo(PageSet, MaxPages) }

Thresholds == 0..MaxThreshold \cup { DefaultThreshold }

\* -------------------------------------------------------------- state
VARIABLES
  uploaded_file,    \* st.file_uploader's value: None or Some(file)
  threshold_hours,  \* st.number_input's value
  button,           \* st.button's value in this run of the script
  pc,               \* where the script is; "idle" between two runs
  pdf_text,         \* main's pdf_text: None before extract_text_from_pdf returns
  df,               \* main's df: None or Some(rows)
  result_df,        \* main's result_df: None or Some(result rows)
  pdf_buffer,       \* main's pdf_buffer: None or Some(document)
  ui,               \* what this run has rendered on the page, in order
  calls             \* the functions this run has called, in order

vars ==
  << uploaded_file, threshold_hours, button, pc, pdf_text, df, result_df,
     pdf_buffer, ui, calls >>

Shown(kind) == \E i \in 1..Len(ui) : ui[i].st = kind
ShownMsg(kind, msg) == \E i \in 1..Len(ui) : ui[i].st = kind /\ ui[i].msg = msg

Init ==
  /\ uploaded_file = None
  /\ threshold_hours = DefaultThreshold
  /\ button = FALSE
  /\ pc = "main"
  /\ pdf_text = None
  /\ df = None
  /\ result_df = None
  /\ pdf_buffer = None
  /\ ui = << >>
  /\ calls = << >>

\* Streamlit runs the script again from the top on every interaction.
Rerun(clicked) ==
  /\ pc = "idle"
  /\ pc' = "main"
  /\ button' = clicked
  /\ pdf_text' = None
  /\ df' = None
  /\ result_df' = None
  /\ pdf_buffer' = None
  /\ ui' = << >>
  /\ calls' = << >>

\* ------------------------------------------------------ the user's moves
\* The uploader takes a file when it holds none, and gives it up on removal.
Upload(file) ==
  /\ uploaded_file = None
  /\ Rerun(FALSE)
  /\ uploaded_file' = Some(file)
  /\ UNCHANGED threshold_hours

RemoveFile ==
  /\ uploaded_file # None
  /\ Rerun(FALSE)
  /\ uploaded_file' = None
  /\ UNCHANGED threshold_hours

SetThreshold(t) ==
  /\ Shown("number_input")
  /\ t # threshold_hours
  /\ Rerun(FALSE)
  /\ threshold_hours' = t
  /\ UNCHANGED uploaded_file

ClickCalculate ==
  /\ Shown("button")
  /\ Rerun(TRUE)
  /\ UNCHANGED << uploaded_file, threshold_hours >>

\* ----------------------------------------------------------------- main
\* pdf_text[:500] + "..." if len(pdf_text) > 500 else pdf_text
Preview(text) ==
  IF Len(text) > PreviewLen THEN Take(text, PreviewLen) \o << ".", ".", "." >> ELSE text

\* Mutant: the pipeline goes on whatever process_pdf_data returned.
DatasetUsableAlways(d) == TRUE

\* df is not None and not df.empty
DatasetUsable(d) == d # None /\ d[1] # << >>

\* if pdf_buffer:
Truthy(b) == b # None

MainStart ==
  /\ pc = "main"
  /\ IF uploaded_file = None
     THEN /\ ui' = Append(ui, Out("info", "Please upload a PDF file to begin processing.", << >>, 0))
          /\ pc' = "idle"
     ELSE /\ pc' = "extract"
          /\ UNCHANGED ui
  /\ UNCHANGED << uploaded_file, threshold_hours, button, pdf_text, df, result_df,
                  pdf_buffer, calls >>

Extract ==
  /\ pc = "extract"
  /\ calls' = Append(calls, "extract_text_from_pdf")
  /\ IF uploaded_file[1].readable
     THEN LET text == ExtractTextFromPdf(uploaded_file[1].pages)
          IN  /\ pdf_text' = Some(text)
              /\ ui' = Append(ui, Out("text", "Show extracted PDF text", Preview(text), 0))
              /\ pc' = "parse"
     ELSE /\ ui' = Append(ui, Out("error", "Error processing file", << >>, 0))
          /\ pc' = "idle"
          /\ UNCHANGED pdf_text
  /\ UNCHANGED << uploaded_file, threshold_hours, button, df, result_df, pdf_buffer >>

Parse ==
  /\ pc = "parse"
  /\ calls' = Append(calls, "process_pdf_data")
  /\ LET r == ProcessPdfData(pdf_text[1])
     IN  /\ df' = r.df
         /\ IF DatasetUsable(r.df)
            THEN /\ ui' = ui \o r.out
                 /\ pc' = "inputs"
            ELSE /\ ui' = (ui \o r.out)
                        \o << Out("error", "Unable to process the PDF", << >>, 0) >>
                 /\ pc' = "idle"
  /\ UNCHANGED << uploaded_file, threshold_hours, button, pdf_text, result_df, pdf_buffer >>

Inputs ==
  /\ pc = "inputs"
  /\ ui' = ui \o << Out("subheader", "Extracted Data", << >>, 0),
                    Out("dataframe", "df", << >>, 0),
                    Out("number_input", "Enter the threshold hours:", << >>, threshold_hours),
                    Out("button", "Calculate Deductions", << >>, 0) >>
  /\ pc' = IF button THEN "calc" ELSE "idle"
  /\ UNCHANGED << uploaded_file, threshold_hours, button, pdf_text, df, result_df,
                  pdf_buffer, calls >>

Calculate ==
  /\ pc = "calc"
  /\ calls' = Append(calls, "calculate_deductions")
  /\ result_df' = Some(CalculateDeductions(df[1], threshold_hours))
  /\ ui' = ui \o << Out("subheader", "Salary Deductions", << >>, 0),
                    Out("dataframe", "result_df", << >>, 0) >>
  /\ pc' = "render"
  /\ UNCHANGED << uploaded_file, threshold_hours, button, pdf_text, df, pdf_buffer >>

Render ==
  /\ pc = "render"
  /\ calls' = Append(calls, "create_pdf")
  /\ \E build_ok \in BOOLEAN :
       LET r == CreatePdf(result_df[1], build_ok)
       IN  /\ pdf_buffer' = r.buffer
           /\ result_df' = Some(r.df)
           /\ ui' = (ui \o r.out)
                    \o (IF Truthy(r.buffer)
                        THEN << Out("download_button", "Download PDF Report", << >>, 0) >>
                        ELSE << >>)
  /\ pc' = "idle"
  /\ UNCHANGED << uploaded_file, threshold_hours, button, pdf_text, df >>

Next ==
  \/ \E file \in Files : Upload(file)
  \/ RemoveFile
  \/ \E t \in Thresholds : SetThreshold(t)
  \/ ClickCalculate
  \/ MainStart
  \/ Extract
  \/ Parse
  \/ Inputs
  \/ Calculate
  \/ Render

Spec == Init /\ [][Next]_vars

\* ============================================================== claims
\* What the claims speak of, stated apart from the code's loop.
Called(f) == \E i \in 1..Len(calls) : calls[i] = f
Parsed == Called("process_pdf_data")
TextLines == SplitOn(pdf_text[1], NL)

NonBlank(line) == \E i \in 1..Len(line) : line[i] \notin Whitespace
EnoughTokens(line) == Len(SplitWS(line)) >= 11

\* The first 11 tokens all coerce.
Coerces(line) ==
  LET p == SplitWS(line)
  IN  /\ Len(p) >= 11
      /\ IsFloat(Remove(p[2], ","))
      /\ IsFloat(Remove(p[3], ","))
      /\ \A k \in 4..11 : IsInt(p[k])

\* The data lines: the non-blank lines after the first.
DataIdx(lines) == { i \in 2..Len(lines) : NonBlank(lines[i]) }
AcceptedIdx(lines) == { i \in DataIdx(lines) : Coerces(lines[i]) }
RefusedIdx(lines) == { i \in DataIdx(lines) : EnoughTokens(lines[i]) /\ ~Coerces(lines[i]) }

\* The k-th smallest element of the set of indices I.
NthOf(I, k) == CHOOSE i \in I : Cardinality({ j \in I : j < i }) = k - 1

NumAccepted == IF df = None THEN 0 ELSE Len(df[1])
IsWarning(o) == o.st = "warning"
Warnings == SelectSeq(ui, IsWarning)

\* pdf_text with the content of its first line taken away.
BlankFirstLine(text) ==
  LET i == FindFrom(text, NL, 1) IN IF i = 0 THEN << >> ELSE Drop(text, i - 1)

Stages ==
  << "extract_text_from_pdf", "process_pdf_data", "calculate_deductions", "create_pdf" >>

\* C1: calculate_deductions returns one result per dataset row, in row order;
\* the i-th result carries the i-th row's name and total salary, worked hours
\* equal to the row's total hours, the run's threshold, and a deduction of 0
\* if worked >= threshold, else (threshold - worked) * salary per hour.
C1_OneResultPerRow ==
  result_df # None =>
    LET rows == df[1]
        res == result_df[1]
        t == threshold_hours
    IN  /\ Len(res) = Len(rows)
        /\ \A i \in 1..Len(rows) :
             /\ res[i].Name = rows[i].Name
             /\ res[i].TotalSalary = rows[i].TotalSalary
             /\ res[i].WorkedHours = rows[i].TotalHours
             /\ res[i].ThresholdHours = t
             /\ res[i].Deduction =
                  IF rows[i].TotalHours >= t THEN 0
                  ELSE (t - rows[i].TotalHours) * rows[i].SalaryPerHour

\* Two different employees, the second one short of the threshold.
C1_Witness ==
  /\ result_df # None
  /\ Len(result_df[1]) = 2
  /\ result_df[1][1].Name # result_df[1][2].Name
  /\ result_df[1][2].WorkedHours < threshold_hours
  /\ result_df[1][2].Deduction > 0

\* C2 as stated: deduction >= 0 when worked < threshold, and deduction = 0
\* if and only if worked >= threshold.
C2_Original ==
  result_df # None =>
    \A i \in 1..Len(result_df[1]) :
      LET r == result_df[1][i]
      IN  /\ r.WorkedHours < r.ThresholdHours => r.Deduction >= 0
          /\ r.Deduction = 0 <=> r.WorkedHours >= r.ThresholdHours

\* C2 as amended: deduction = 0 whenever worked >= threshold; when worked <
\* threshold the deduction is 0 exactly when the salary per hour is 0, and
\* is >= 0 exactly when the salary per hour is >= 0.
C2_Amended ==
  result_df # None =>
    \A i \in 1..Len(result_df[1]) :
      LET r == result_df[1][i]
          rate == df[1][i].SalaryPerHour
      IN  /\ r.WorkedHours >= r.ThresholdHours => r.Deduction = 0
          /\ r.WorkedHours < r.ThresholdHours =>
               /\ r.Deduction = 0 <=> rate = 0
               /\ r.Deduction >= 0 <=> rate >= 0

\* An employee short of the threshold, paid 0 per hour, who loses nothing.
C2_Witness ==
  /\ result_df # None
  /\ \E i \in 1..Len(result_df[1]) :
       /\ result_df[1][i].WorkedHours < threshold_hours
       /\ df[1][i].SalaryPerHour = 0
       /\ df[1][i].TotalSalary >= 0
       /\ result_df[1][i].Deduction = 0

\* C3: in every result row the final salary is the total salary minus the
\* deduction, and is left negative when the deduction exceeds the salary.
C3_FinalExact ==
  result_df # None =>
    \A i \in 1..Len(result_df[1]) :
      LET r == result_df[1][i]
      IN  r.FinalSalary = r.TotalSalary - r.Deduction

\* A deduction larger than a non-negative salary: the final salary is negative.
C3_Witness ==
  /\ result_df # None
  /\ \E i \in 1..Len(result_df[1]) :
       /\ result_df[1][i].TotalSalary >= 0
       /\ result_df[1][i].Deduction > result_df[1][i].TotalSalary
       /\ result_df[1][i].FinalSalary < 0

\* C4: the records process_pdf_data returns are exactly, and in the same
\* order, those of the non-blank lines after the first whose first 11 tokens
\* all coerce; a refused line leaves no record and stops no later line.
C4_ParseExact ==
  Parsed =>
    LET lines == TextLines
        I == AcceptedIdx(lines)
    IN  IF I = {} THEN df = None
        ELSE /\ df # None
             /\ Len(df[1]) = Cardinality(I)
             /\ \A k \in 1..Cardinality(I) :
                  df[1][k] = Row(SplitWS(lines[NthOf(I, k)]))

\* A line refused by a coercion, and a later line that is accepted.
C4_Witness ==
  /\ Parsed
  /\ df # None
  /\ \E i \in RefusedIdx(TextLines), j \in AcceptedIdx(TextLines) : i < j

C6_EmptyIff ==
  Parsed =>
    LET n == Cardinality(AcceptedIdx(TextLines))
    IN  /\ df = None <=> n = 0
        /\ df = None <=> ShownMsg("error", "No valid data found in the PDF")
        /\ df # None => Len(df[1]) = n

\* No record accepted although a line was refused with a warning.
C6_Witness ==
  /\ Parsed
  /\ df = None
  /\ Len(Warnings) > 0

\* C7: the first line is never turned into a record: the records are those
\* of the text with its first line blanked, and a text whose only non-blank
\* line is the first one gives no dataset.
C7_FirstLineDropped ==
  Parsed =>
    /\ df = ProcessPdfData(BlankFirstLine(pdf_text[1])).df
    /\ DataIdx(TextLines) = {} => df = None

\* A well-formed data line on the first line, and no dataset.
C7_Witness ==
  /\ Parsed
  /\ Coerces(TextLines[1])
  /\ df = None

\* C8: every retained record has a non-empty name, a total salary >= 0, a
\* salary per hour >= 0, exactly 7 daily hours each >= 0 and total hours >= 0.
C8_RecordInvariant ==
  df # None =>
    \A i \in 1..Len(df[1]) :
      LET r == df[1][i]
      IN  /\ r.Name # << >>
          /\ r.TotalSalary >= 0
          /\ r.SalaryPerHour >= 0
          /\ Len(r.Hours) = 7
          /\ \A d \in 1..7 : r.Hours[d] >= 0
          /\ r.TotalHours >= 0

\* C9: a run calls extract, parse, calculate, render in this order only, and
\* when parsing gives no dataset it ends there with an error: nothing is
\* calculated or rendered and no download is offered.
C9_StageOrder ==
  /\ \E n \in 0..Len(Stages) : calls = Take(Stages, n)
  /\ (Parsed /\ df = None) =>
       /\ pc = "idle"
       /\ ~Called("calculate_deductions")
       /\ ~Called("create_pdf")
       /\ result_df = None
       /\ pdf_buffer = None
       /\ ~Shown("download_button")
       /\ ShownMsg("error", "Unable to process the PDF")

\* A run that ended at parsing with no dataset.
C9_Witness ==
  /\ Parsed
  /\ df = None
  /\ pc = "idle"
  /\ calls = Take(Stages, 2)

\* C10: when doc.build fails, create_pdf reports an error and returns no
\* document, no download is offered, the script ends normally with the
\* button still there for another try, and the table handed to create_pdf
\* is unchanged; a download is offered only when rendering succeeded.
C10_RenderError ==
  /\ Called("create_pdf") =>
       /\ pc = "idle"
       /\ result_df = Some(CalculateDeductions(df[1], threshold_hours))
       /\ IF pdf_buffer = None
          THEN /\ ShownMsg("error", "Error creating PDF")
               /\ ~Shown("download_button")
               /\ ENABLED ClickCalculate
          ELSE /\ ~ShownMsg("error", "Error creating PDF")
               /\ Shown("download_button")
  /\ Shown("download_button") => (Called("create_pdf") /\ pdf_buffer # None)

\* A render that failed.
C10_Witness ==
  /\ Called("create_pdf")
  /\ pdf_buffer = None
  /\ result_df # None

====
